---- MODULE Spec2Model ----
(***************************************************************************)
(* Synthesis of the Streamlit ECR/ECS deployment stacks and the request    *)
(* routing the synthesized edge distribution and load balancer perform.    *)
(*                                                                         *)
(* A behaviour first runs one stack constructor statement by statement      *)
(* (configuration, registry unit, network unit, compute unit) and then      *)
(* routes one viewer request through the declared resources.                *)
(*                                                                         *)
(* Strings built by template literals are kept as tuples of their parts.    *)
(* The load balancer compares header names and values as the declaration    *)
(* gives them (exact equality).                                             *)
(***************************************************************************)
EXTENDS Integers, Sequences, FiniteSets, TLC

VARIABLES
    entry,      \* the stack class that is instantiated
    env,        \* process.env: each name not set, or set to a value
    props,      \* StreamlitBaseStackProps handed to the constructor
    pc,         \* position in the constructor
    envTyped,   \* the IEnvTypes record of the top-level constructor
    registry,   \* the StreamlitEcrDeploymentCdkStack that was constructed
    network,    \* the StreamlitVpcDeploymentCdkStack that was constructed
    compute,    \* the compute stack that was constructed
    req,        \* the viewer request in flight
    edge,       \* the distribution: its cache and its request counts
    scaler      \* the task count of the service and its autoscaling

vars == <<entry, env, props, pc, envTyped, registry, network, compute, req, edge, scaler>>

----------------------------------------------------------------------------
\* Bounds

\* how many redirects a viewer follows before giving up
MaxRedirects == 2

\* how many times a viewer sends the same request again
MaxRepeats == 1

\* the seconds since a scaling step are counted up to this number
MaxElapsed == 61

----------------------------------------------------------------------------
\* JavaScript values

\* the value of an environment variable that is not set
Undefined == "<undefined>"

\* ${v} in a template literal
Str(v) == IF v = Undefined THEN "undefined" ELSE v

\* numbers: parseInt yields an integer or NaN
Num(n) == [nan |-> FALSE, n |-> n]
NaN == [nan |-> TRUE, n |-> 0]

Digits == {"0", "1", "2", "3", "4", "5", "6", "7", "8", "9"}

\* the digits of radix 16 above 9, in either case
HexLetters == {"a", "b", "c", "d", "e", "f", "A", "B", "C", "D", "E", "F"}

DigitVal(c) ==
    CASE c = "0" -> 0 [] c = "1" -> 1 [] c = "2" -> 2 [] c = "3" -> 3
      [] c = "4" -> 4 [] c = "5" -> 5 [] c = "6" -> 6 [] c = "7" -> 7
      [] c = "8" -> 8 [] c = "9" -> 9
      [] c \in {"a", "A"} -> 10 [] c \in {"b", "B"} -> 11
      [] c \in {"c", "C"} -> 12 [] c \in {"d", "D"} -> 13
      [] c \in {"e", "E"} -> 14 [] c \in {"f", "F"} -> 15

\* the digits of a radix: 10 or 16
RadixDigits(R) == IF R = 16 THEN Digits \cup HexLetters ELSE Digits

\* the characters of String(undefined)
UndefinedChars == <<"u", "n", "d", "e", "f", "i", "n", "e", "d">>

\* StrWhiteSpaceChar: the white space and line terminator characters; a
\* character without an escape is written by its code point
WhiteSpace ==
    { " ", "\t", "\n", "\r", "\f", "<U+000B>", "<U+00A0>", "<U+FEFF>",
      "<U+1680>", "<U+2000>", "<U+2001>", "<U+2002>", "<U+2003>", "<U+2004>",
      "<U+2005>", "<U+2006>", "<U+2007>", "<U+2008>", "<U+2009>", "<U+200A>",
      "<U+2028>", "<U+2029>", "<U+202F>", "<U+205F>", "<U+3000>" }

RECURSIVE SkipWhitespace(_)
SkipWhitespace(s) ==
    IF s # <<>> /\ Head(s) \in WhiteSpace THEN SkipWhitespace(Tail(s)) ELSE s

RECURSIVE ParseDigits(_, _, _)
ParseDigits(s, R, acc) ==
    IF s = <<>> \/ Head(s) \notin RadixDigits(R)
    THEN acc
    ELSE ParseDigits(Tail(s), R, acc * R + DigitVal(Head(s)))

\* the string after the sign starts with 0x or 0X
HexPrefix(d) == Len(d) >= 2 /\ d[1] = "0" /\ d[2] \in {"x", "X"}

\* parseInt(string) without a radix: leading white space, an optional sign,
\* an optional 0x or 0X that selects radix 16, then the longest prefix of
\* digits of the radix; NaN when there is no digit
parseInt(s) ==
    LET t == SkipWhitespace(s)
        signed == t # <<>> /\ Head(t) \in {"+", "-"}
        d == IF signed THEN Tail(t) ELSE t
        R == IF HexPrefix(d) THEN 16 ELSE 10
        z == IF HexPrefix(d) THEN Tail(Tail(d)) ELSE d
    IN  IF z = <<>> \/ Head(z) \notin RadixDigits(R)
        THEN NaN
        ELSE IF signed /\ Head(t) = "-"
             THEN Num(0 - ParseDigits(z, R, 0))
             ELSE Num(ParseDigits(z, R, 0))

----------------------------------------------------------------------------
\* Inputs

EnvNames == {"ECR_REPOSITORY_NAME", "APP_NAME", "IMAGE_VERSION", "PORT"}

AppNames == {"demo", "app"}
RepositoryNames == {"repo"}
ImageVersions == {"latest", "1.2.0"}
Ports ==
    { <<"8", "0">>, <<"8", "5", "0", "1">>, <<" ", "8", "0", "x">>,
      <<"\t", "8", "0">>, <<"0", "x", "1", "f">> }

\* a variable of the environment is not set, or set to a value
Unset == [set |-> FALSE]
IsSet(v) == [set |-> TRUE, value |-> v]
Optional(S) == {Unset} \cup {IsSet(v) : v \in S}

\* every environment: each name is either not set or set to one of its values
Environments ==
    [ ECR_REPOSITORY_NAME : Optional(RepositoryNames),
      APP_NAME : Optional(AppNames),
      IMAGE_VERSION : Optional(ImageVersions),
      PORT : Optional(Ports) ]

\* the names that are not set in an environment
Absent(e) == {n \in EnvNames : ~e[n].set}

\* process.env.NAME
ProcessEnv(e, name) == IF e[name].set THEN e[name].value ELSE Undefined

\* String(value) of an environment variable, as parseInt reads its argument
StringOf(v) == IF v.set THEN v.value ELSE UndefinedChars

\* the sentinel of bin/streamlit-ecr-ecs-deployment-cdk
LATEST_IMAGE_VERSION == "latest"

\* the platform value the entry point derives from a PLATFORMS entry
PlatformValue(platform) ==
    IF platform = "LINUX_ARM64" THEN "arm64" ELSE "amd64"

PlatformNames == {"LINUX_AMD64", "LINUX_ARM64"}

\* platform strings a caller can hand to a stack
PlatformStrings == {PlatformValue(p) : p \in PlatformNames} \cup {"arm", "riscv"}

BaseProps ==
    [environment : {"dev"}, deployRegion : {"us-east-1"}, platformString : PlatformStrings]

Entries ==
    { "CdkStreamlitFargateDeploymentStack",
      "CdkStreamlitEcrEcsAppRunnerDeploymentStack",
      "CdkFargateFrontWithVpcDeploymentStack" }

TopLevelEntries ==
    {"CdkStreamlitFargateDeploymentStack", "CdkStreamlitEcrEcsAppRunnerDeploymentStack"}

NoUnit == [kind |-> "none"]

----------------------------------------------------------------------------
\* Registry unit: StreamlitEcrDeploymentCdkStack

\* variant: the two rules with their priorities exchanged
LifecycleRules_Swapped ==
    { [rulePriority |-> 2, tagStatus |-> "UNTAGGED", maxImageAgeDays |-> 7],
      [rulePriority |-> 1, tagStatus |-> "ANY", maxImageCount |-> 4] }

\* the two addLifecycleRule calls
LifecycleRules ==
    { [rulePriority |-> 1, tagStatus |-> "UNTAGGED", maxImageAgeDays |-> 7],
      [rulePriority |-> 2, tagStatus |-> "ANY", maxImageCount |-> 4] }

\* platform of the DockerImageAsset
DockerImagePlatform(platformString) ==
    IF platformString = "arm" THEN "linux/arm64" ELSE "linux/amd64"

\* variant: the sentinel alone is deployed
deployImageVersions_LatestOnly(imageVersion) ==
    <<LATEST_IMAGE_VERSION>>

\* variant: the sentinel is deployed in addition whatever the version is
deployImageVersions_Always(imageVersion) ==
    <<imageVersion, LATEST_IMAGE_VERSION>>

\* the image versions that are deployed, in the order of the loop
deployImageVersions(imageVersion) ==
    IF imageVersion = LATEST_IMAGE_VERSION
    THEN <<imageVersion>>
    ELSE <<imageVersion, LATEST_IMAGE_VERSION>>

\* one ECRDeployment per deployed version: the tag of its destination
\* `${repositoryUri}:${deployImageVersion}`
ECRDeployments(imageVersion) ==
    LET versions == deployImageVersions(imageVersion)
    IN  [i \in 1..Len(versions) |-> Str(versions[i])]

\* the constructor of the registry unit
StreamlitEcrDeploymentCdkStack(owner, p) ==
    [ kind |-> "registry",
      props |-> p,
      ecrRepository |-> [owner |-> owner, repositoryName |-> p.repositoryName],
      lifecycleRules |-> LifecycleRules,
      imagePlatform |-> DockerImagePlatform(p.platformString),
      ecrDeployments |-> ECRDeployments(p.imageVersion) ]

----------------------------------------------------------------------------
\* Network unit: StreamlitVpcDeploymentCdkStack

StreamlitVpcDeploymentCdkStack(owner, p) ==
    [ kind |-> "network", props |-> p, vpc |-> [owner |-> owner] ]

----------------------------------------------------------------------------
\* Compute unit: the two CdkFargateFrontWithVpcDeploymentStack classes

\* ec2.Port.tcp(port) and ec2.Port.allTraffic()
PortTcp(port) == [protocol |-> "tcp", fromPort |-> port, toPort |-> port]
PortAllTraffic == [protocol |-> "all"]

\* securityGroup.addIngressRule(peer, port)
IngressRule(peer, port) == [peer |-> peer, port |-> port]

AnyIpv4 == "0.0.0.0/0"

\* the ingress rules of the load balancer's security group
LoadBalancerIngress == { IngressRule(AnyIpv4, PortTcp(Num(80))) }

\* variant: the container port is also open to any address
EcsIngress_Open(containerPort) ==
    { IngressRule("loadBalancerSecurityGroup", PortTcp(Num(80))),
      IngressRule("loadBalancerSecurityGroup", PortTcp(containerPort)),
      IngressRule(AnyIpv4, PortTcp(containerPort)),
      IngressRule("ecsSecurityGroup", PortAllTraffic) }

\* the ingress rules of the compute security group
EcsIngress(containerPort) ==
    { IngressRule("loadBalancerSecurityGroup", PortTcp(Num(80))),
      IngressRule("loadBalancerSecurityGroup", PortTcp(containerPort)),
      IngressRule("ecsSecurityGroup", PortAllTraffic) }

\* variant: arm64 is taken for an ARM platform as well
RuntimePlatform_Arm64(platformString) ==
    [ cpuArchitecture |-> IF platformString \in {"arm", "arm64"} THEN "ARM64" ELSE "X86_64",
      operatingSystemFamily |-> "LINUX" ]

\* runtimePlatform of the Fargate service
RuntimePlatform(platformString) ==
    [ cpuArchitecture |-> IF platformString = "arm" THEN "ARM64" ELSE "X86_64",
      operatingSystemFamily |-> "LINUX" ]

\* the tag ecs.ContainerImage.fromEcrRepository(repository, tag) refers to:
\* the tag handed over, "latest" when none is
ImageTag(tag) == IF tag = Undefined THEN "latest" ELSE tag

\* the ApplicationLoadBalancedFargateService
FargateService(p) ==
    [ image |-> [repository |-> p.ecrRepository, tag |-> p.imageVersion],
      containerPort |-> p.containerPort,
      securityGroups |-> {"ecsSecurityGroup"},
      cpu |-> 1024,
      memoryLimitMiB |-> 2048,
      desiredCount |-> 1,
      runtimePlatform |-> RuntimePlatform(p.platformString) ]

\* variant: the service may scale out to three tasks
Scaling_ThreeTasks ==
    [ minCapacity |-> 1, maxCapacity |-> 3, targetUtilizationPercent |-> 70,
      scaleInCooldown |-> 60, scaleOutCooldown |-> 60 ]

\* autoScaleTaskCount and scaleOnCpuUtilization
Scaling ==
    [ minCapacity |-> 1, maxCapacity |-> 2, targetUtilizationPercent |-> 70,
      scaleInCooldown |-> 60, scaleOutCooldown |-> 60 ]

\* streamlitDistribution.distributionDomainName
DistributionDomainName == "<distribution-domain>"

\* elbv2.ListenerAction.forward([fargateService.targetGroup])
Forward == [kind |-> "forward", target |-> "targetGroup"]

\* elbv2.ListenerAction.redirect(options)
Redirect(options) ==
    [ kind |-> "redirect",
      statusCode |-> IF options.permanent THEN "HTTP_301" ELSE "HTTP_302",
      protocol |-> options.protocol,
      port |-> options.port,
      host |-> options.host ]

\* elbv2.ListenerCondition.httpHeader(name, values) and pathPatterns(values)
HttpHeader(name, values) == [field |-> "http-header", name |-> name, values |-> values]
PathPatterns(values) == [field |-> "path-pattern", name |-> "", values |-> values]

\* the custom header object
customHeaderName == "X-Verify-Origin"
customHeaderValue(appName) == <<Str(appName), "-StreamlitCloudFrontDistribution">>

\* customHeaders of the LoadBalancerV2Origin
OriginCustomHeaders(appName) == { <<"custom_header_name", customHeaderValue(appName)>> }

\* the ApplicationListenerRule of priority 1
StreamlitApplicationListenerRule(appName) ==
    [ priority |-> 1,
      conditions |-> { HttpHeader(customHeaderName, {customHeaderValue(appName)}) },
      action |-> Forward ]

\* the ApplicationListenerRule of priority 5
RedirectApplicationListenerRule ==
    [ priority |-> 5,
      conditions |-> { PathPatterns({"*"}) },
      action |-> Redirect([ host |-> DistributionDomainName, permanent |-> TRUE,
                            protocol |-> "HTTPS", port |-> "443" ]) ]

\* variant: the distribution caches with the managed CachingOptimized policy
StreamlitCachePolicy_Optimized == "CACHING_OPTIMIZED"

\* cachePolicy of the default behaviour, the same in both classes
StreamlitCachePolicy == "CACHING_DISABLED"

\* the OriginRequestPolicy, the same in both classes
StreamlitOriginRequestPolicy ==
    [ cookieBehavior |-> "all", headerBehavior |-> "all", queryStringBehavior |-> "all" ]

\* the headers a managed response headers policy adds to the response to a
\* cross-origin request: access-control-allow-origin to every one, and with
\* the policy for preflight the methods and the exposed headers as well to a
\* preflight (OPTIONS) request
ResponseHeadersPolicy(name, preflight) ==
    IF name = "CORS_ALLOW_ALL_ORIGINS"
    THEN { <<"access-control-allow-origin", "*">> }
    ELSE IF name = "CORS_ALLOW_ALL_ORIGINS_WITH_PREFLIGHT"
    THEN IF preflight
         THEN { <<"access-control-allow-origin", "*">>,
                <<"access-control-allow-methods",
                  "DELETE, GET, HEAD, OPTIONS, PATCH, POST, PUT">>,
                <<"access-control-expose-headers", "*">> }
         ELSE { <<"access-control-allow-origin", "*">> }
    ELSE {}

\* the first class: a distribution in front of the load balancer, no listener
\* rule; compress and viewerProtocolPolicy are not given and take the values
\* the Distribution construct gives them
CdkFargateFrontWithVpcDeploymentStack(p) ==
    [ kind |-> "FargateFront",
      props |-> p,
      securityGroups |->
        [ httpSG |-> { IngressRule(AnyIpv4, PortTcp(Num(80))) },
          httpsSG |-> { IngressRule(AnyIpv4, PortTcp(Num(443))) },
          loadBalancerSecurityGroup |-> LoadBalancerIngress,
          ecsSecurityGroup |-> EcsIngress(p.containerPort) ],
      service |-> FargateService(p),
      scaling |-> Scaling,
      listener |-> [defaultAction |-> Forward, rules |-> {}],
      distribution |->
        [ domainName |-> DistributionDomainName,
          originProtocolPolicy |-> "HTTP_ONLY",
          customHeaders |-> {},
          originRequestPolicy |-> StreamlitOriginRequestPolicy,
          responseHeadersPolicy |-> "CORS_ALLOW_ALL_ORIGINS_WITH_PREFLIGHT",
          cachePolicy |-> StreamlitCachePolicy,
          allowedMethods |-> "ALLOW_ALL",
          compress |-> TRUE,
          viewerProtocolPolicy |-> "ALLOW_ALL",
          viewerRequestFunction |-> "cors",
          minimumProtocolVersion |-> "TLS_V1_2_2019" ],
      streamlitURL |-> <<DistributionDomainName>> ]

\* the second class, imported as CdkFargateCloudFrontWithVpcDeploymentStack:
\* the distribution injects the custom header and the listener has two rules
CdkFargateCloudFrontWithVpcDeploymentStack(p) ==
    [ kind |-> "FargateCloudFront",
      props |-> p,
      securityGroups |->
        [ loadBalancerSecurityGroup |-> LoadBalancerIngress,
          ecsSecurityGroup |-> EcsIngress(p.containerPort) ],
      service |-> FargateService(p),
      scaling |-> Scaling,
      listener |->
        [ defaultAction |-> Forward,
          rules |-> { StreamlitApplicationListenerRule(p.appName),
                      RedirectApplicationListenerRule } ],
      distribution |->
        [ domainName |-> DistributionDomainName,
          originProtocolPolicy |-> "HTTP_ONLY",
          customHeaders |-> OriginCustomHeaders(p.appName),
          originRequestPolicy |-> StreamlitOriginRequestPolicy,
          responseHeadersPolicy |-> "CORS_ALLOW_ALL_ORIGINS",
          cachePolicy |-> StreamlitCachePolicy,
          allowedMethods |-> "ALLOW_ALL",
          compress |-> TRUE,
          viewerProtocolPolicy |-> "REDIRECT_TO_HTTPS",
          viewerRequestFunction |-> "corsFunction",
          minimumProtocolVersion |-> "TLS_V1_2_2021" ],
      streamlitURL |-> <<"https://", DistributionDomainName>> ]

\* the managed hosting topology of the App Runner stack
CdkAppRunnerWithVpcDeploymentStack(p) ==
    [ kind |-> "AppRunner", props |-> p ]

FargateKinds == {"FargateFront", "FargateCloudFront"}

----------------------------------------------------------------------------
\* The top-level stacks

\* const envTyped: IEnvTypes = { NAME: process.env.NAME!, ... }
\* (the non-null assertion is erased when the code is compiled)
EnvTyped(e) ==
    [ ECR_REPOSITORY_NAME |-> ProcessEnv(e, "ECR_REPOSITORY_NAME"),
      APP_NAME |-> ProcessEnv(e, "APP_NAME"),
      IMAGE_VERSION |-> ProcessEnv(e, "IMAGE_VERSION"),
      PORT |-> e.PORT ]

\* const ecrStackProps: StreamlitEcrStackProps
EcrStackProps(t, base) ==
    [ repositoryName |-> t.ECR_REPOSITORY_NAME,
      appName |-> t.APP_NAME,
      imageVersion |-> t.IMAGE_VERSION,
      environment |-> base.environment,
      deployRegion |-> base.deployRegion,
      platformString |-> base.platformString ]

\* variant: the compute props name a repository and a network of their own
\* instead of the handles of the registry and network units
EcsStackProps_Detached(t, base, ecrRepository, vpc) ==
    [ repositoryName |-> t.ECR_REPOSITORY_NAME,
      appName |-> t.APP_NAME,
      imageVersion |-> t.IMAGE_VERSION,
      environment |-> base.environment,
      deployRegion |-> base.deployRegion,
      platformString |-> base.platformString,
      containerPort |-> parseInt(StringOf(t.PORT)),
      ecrRepository |-> [owner |-> "caller", repositoryName |-> t.ECR_REPOSITORY_NAME],
      vpc |-> [owner |-> "caller"] ]

\* const ecsStackProps: StreamlitEcsStackProps
EcsStackProps(t, base, ecrRepository, vpc) ==
    [ repositoryName |-> t.ECR_REPOSITORY_NAME,
      appName |-> t.APP_NAME,
      imageVersion |-> t.IMAGE_VERSION,
      environment |-> base.environment,
      deployRegion |-> base.deployRegion,
      platformString |-> base.platformString,
      containerPort |-> parseInt(StringOf(t.PORT)),
      ecrRepository |-> ecrRepository,
      vpc |-> vpc ]

\* the compute stack a top-level stack instantiates
ComputeStack(top, p) ==
    IF top = "CdkStreamlitFargateDeploymentStack"
    THEN CdkFargateCloudFrontWithVpcDeploymentStack(p)
    ELSE CdkAppRunnerWithVpcDeploymentStack(p)

----------------------------------------------------------------------------
\* Requests

Methods == {"GET", "POST", "OPTIONS"}
Paths == {"/", "/app"}

\* the protocols a viewer reaches the distribution with
Protocols == {"http", "https"}

NoResponse == [kind |-> "none"]

\* the headers a viewer may send along: none, the exact gate pair, the right
\* name with another value, the right value under another name, the name of
\* the origin's custom header with another value, the Origin header of a
\* cross-origin request
ViewerHeaderSets(appName) ==
    { {},
      { <<customHeaderName, customHeaderValue(appName)>> },
      { <<customHeaderName, <<"guess", "-StreamlitCloudFrontDistribution">> >> },
      { <<"custom_header_name", customHeaderValue(appName)>> },
      { <<"custom_header_name", <<"foo">> >> },
      { <<"Origin", <<"https://viewer.example">> >> } }

\* the cookies and the query parameters a viewer may send along
ViewerExtras ==
    { [cookies |-> {}, query |-> {}],
      [cookies |-> {<<"session", "s1">>}, query |-> {<<"page", "2">>}] }

Idle ==
    [ stage |-> "idle", method |-> "GET", path |-> "/",
      viewerProtocol |-> "http", protocol |-> "http",
      originProtocol |-> "none", viewerHeaders |-> {},
      headers |-> {}, viewerCookies |-> {}, cookies |-> {}, viewerQuery |-> {},
      query |-> {}, sentTo |-> "none", viaEdge |-> FALSE,
      response |-> NoResponse, answeredBy |-> "none", responseHeaders |-> {},
      compressed |-> FALSE, redirects |-> 0, repeats |-> 0 ]

\* the distribution before any request
EdgeIdle == [cache |-> {}, redirected |-> 0, received |-> 0, forwarded |-> 0]

\* the service before it runs
ScalerIdle == [running |-> FALSE]

\* viewerProtocolPolicy REDIRECT_TO_HTTPS: the distribution answers a request
\* over HTTP itself, before the viewer-request function runs
RedirectsToHttps(distribution, request) ==
    distribution.viewerProtocolPolicy = "REDIRECT_TO_HTTPS" /\ request.protocol = "http"

\* the redirect to the same host over HTTPS: 301 for GET and HEAD, 307 for
\* the other methods
ViewerProtocolRedirect(distribution, request) ==
    [ kind |-> "redirect",
      statusCode |-> IF request.method \in {"GET", "HEAD"} THEN "HTTP_301" ELSE "HTTP_307",
      protocol |-> "HTTPS",
      port |-> "443",
      host |-> distribution.domainName ]

\* the protocol of the request the distribution sends to its origin
OriginProtocol(distribution, request) ==
    IF distribution.originProtocolPolicy = "HTTP_ONLY" THEN "http" ELSE request.protocol

\* the headers the response headers policy adds to the response to a
\* cross-origin request, one that carries an Origin header
AddedResponseHeaders(distribution, request) ==
    IF \E h \in request.viewerHeaders : h[1] = "Origin"
    THEN ResponseHeadersPolicy(distribution.responseHeadersPolicy,
                               request.method = "OPTIONS")
    ELSE {}

\* compress: the distribution compresses a response when its cache policy
\* admits compressed objects and the viewer accepts an encoding
Compresses(distribution, request) ==
    /\ distribution.compress
    /\ distribution.cachePolicy # "CACHING_DISABLED"
    /\ \E h \in request.viewerHeaders : h[1] = "Accept-Encoding"

\* variant: the function passes every request on, OPTIONS included
corsFunction_PassAll(request) ==
    [ kind |-> "request", request |-> request ]

\* the viewer-request function of the distribution
corsFunction(request) ==
    IF request.method = "OPTIONS"
    THEN [ kind |-> "response", statusCode |-> 204, statusDescription |-> "OK",
           headers |-> { <<"access-control-allow-origin", "*">>,
                         <<"access-control-allow-headers", "*">> } ]
    ELSE [ kind |-> "request", request |-> request ]

\* the headers of the request the distribution sends to its origin: all
\* viewer headers, and the custom headers of the origin, which replace a
\* viewer header of the same name
OriginRequestHeaders(distribution, headers) ==
    { h \in headers : \A c \in distribution.customHeaders : c[1] # h[1] }
        \cup distribution.customHeaders

\* variant: a pattern matches the path equal to it only, "*" is no wildcard
PathPatternMatches_Literal(pattern, path) == pattern = path

\* the cookies and the query parameters of the request to the origin, as the
\* origin request policy selects them
OriginRequestCookies(distribution, cookies) ==
    IF distribution.originRequestPolicy.cookieBehavior = "all" THEN cookies ELSE {}

OriginRequestQuery(distribution, query) ==
    IF distribution.originRequestPolicy.queryStringBehavior = "all" THEN query ELSE {}

\* the distribution answers from its cache: never with caching disabled,
\* otherwise a GET it has stored an answer for
CacheKey(request) == <<request.method, request.path>>

CacheHit(distribution, cache, request) ==
    /\ distribution.cachePolicy # "CACHING_DISABLED"
    /\ CacheKey(request) \in cache

\* the cache after the origin has answered a request of the distribution
CacheAfter(distribution, cache, request) ==
    IF distribution.cachePolicy # "CACHING_DISABLED" /\ request.method = "GET"
    THEN cache \cup {CacheKey(request)}
    ELSE cache

\* a path pattern of a listener condition matches a path
PathPatternMatches(pattern, path) == pattern = "*" \/ pattern = path

\* variant: a header condition that looks at the name of the header only
ConditionMatches_NameOnly(c, request) ==
    IF c.field = "http-header"
    THEN \E h \in request.headers : h[1] = c.name
    ELSE \E pattern \in c.values : PathPatternMatches(pattern, request.path)

\* a condition of a listener rule holds of a request
ConditionMatches(c, request) ==
    IF c.field = "http-header"
    THEN \E h \in request.headers : h[1] = c.name /\ h[2] \in c.values
    ELSE \E pattern \in c.values : PathPatternMatches(pattern, request.path)

RuleMatches(rule, request) ==
    \A c \in rule.conditions : ConditionMatches(c, request)

\* variant: the matching rule of the highest priority value wins
ListenerAction_Highest(listener, request) ==
    LET matching == {rule \in listener.rules : RuleMatches(rule, request)}
    IN  IF matching = {}
        THEN listener.defaultAction
        ELSE (CHOOSE rule \in matching :
                \A other \in matching : rule.priority >= other.priority).action

\* the action the listener takes: that of the matching rule of the lowest
\* priority value, the default action when no rule matches
ListenerAction(listener, request) ==
    LET matching == {rule \in listener.rules : RuleMatches(rule, request)}
    IN  IF matching = {}
        THEN listener.defaultAction
        ELSE (CHOOSE rule \in matching :
                \A other \in matching : rule.priority <= other.priority).action

----------------------------------------------------------------------------
\* Initial state

Init ==
    /\ entry \in Entries
    /\ env \in Environments
    /\ props \in BaseProps
    /\ entry \notin TopLevelEntries => Absent(env) = {}
    /\ pc = "start"
    /\ envTyped = NoUnit
    /\ registry = NoUnit
    /\ network = NoUnit
    /\ compute = NoUnit
    /\ req = Idle
    /\ edge = EdgeIdle
    /\ scaler = ScalerIdle

----------------------------------------------------------------------------
\* Synthesis: the statements of the top-level constructor

ResolveConfig ==
    /\ pc = "start"
    /\ entry \in TopLevelEntries
    /\ envTyped' = EnvTyped(env)
    /\ pc' = "configured"
    /\ UNCHANGED <<edge, scaler, entry, env, props, registry, network, compute, req>>

NewEcrStack ==
    /\ pc = "configured"
    /\ registry' = StreamlitEcrDeploymentCdkStack(entry, EcrStackProps(envTyped, props))
    /\ pc' = "registry"
    /\ UNCHANGED <<edge, scaler, entry, env, props, envTyped, network, compute, req>>

NewVpcStack ==
    /\ pc = "registry"
    /\ network' = StreamlitVpcDeploymentCdkStack(entry, EcrStackProps(envTyped, props))
    /\ pc' = "network"
    /\ UNCHANGED <<edge, scaler, entry, env, props, envTyped, registry, compute, req>>

NewComputeStack ==
    /\ pc = "network"
    /\ compute' = ComputeStack(entry,
                     EcsStackProps(envTyped, props, registry.ecrRepository, network.vpc))
    /\ pc' = "deployed"
    /\ UNCHANGED <<edge, scaler, entry, env, props, envTyped, registry, network, req>>

\* the first compute class instantiated by a caller of its own
NewFrontStack ==
    /\ pc = "start"
    /\ entry = "CdkFargateFrontWithVpcDeploymentStack"
    /\ compute' = CdkFargateFrontWithVpcDeploymentStack(
                     EcsStackProps(EnvTyped(env), props,
                                   [owner |-> "caller", repositoryName |-> "repo"],
                                   [owner |-> "caller"]))
    /\ pc' = "deployed"
    /\ UNCHANGED <<edge, scaler, entry, env, props, envTyped, registry, network, req>>

----------------------------------------------------------------------------
\* Runtime: one viewer request through the deployed resources

ViewerToLoadBalancer ==
    /\ pc = "deployed"
    /\ compute.kind \in FargateKinds
    /\ req.stage = "idle"
    /\ \E m \in Methods, path \in Paths, h \in ViewerHeaderSets(compute.props.appName),
          x \in ViewerExtras :
         req' = [ Idle EXCEPT !.stage = "loadBalancer", !.method = m, !.path = path,
                              !.viewerProtocol = "http", !.protocol = "http",
                              !.viewerHeaders = h, !.headers = h,
                              !.viewerCookies = x.cookies, !.cookies = x.cookies,
                              !.viewerQuery = x.query, !.query = x.query,
                              !.sentTo = "loadBalancer" ]
    /\ UNCHANGED <<edge, scaler, entry, env, props, pc, envTyped, registry, network, compute>>

ViewerToEdge ==
    /\ pc = "deployed"
    /\ compute.kind \in FargateKinds
    /\ req.stage = "idle"
    /\ \E m \in Methods, path \in Paths, h \in ViewerHeaderSets(compute.props.appName),
          x \in ViewerExtras, protocol \in Protocols :
         req' = [ Idle EXCEPT !.stage = "edge", !.method = m, !.path = path,
                              !.viewerProtocol = protocol, !.protocol = protocol,
                              !.viewerHeaders = h, !.headers = h,
                              !.viewerCookies = x.cookies, !.cookies = x.cookies,
                              !.viewerQuery = x.query, !.query = x.query,
                              !.sentTo = "edge" ]
    /\ UNCHANGED <<edge, scaler, entry, env, props, pc, envTyped, registry, network, compute>>

\* the distribution: it redirects a request over HTTP when its viewer
\* protocol policy says so; otherwise the viewer-request function answers, or
\* the cache does, or the request goes on to the origin with the cookies,
\* query parameters and headers the origin request policy selects and the
\* custom headers of the origin.  Whether the response headers policy acts on
\* a response the function generated is left open.
EdgeHandle ==
    /\ req.stage = "edge"
    /\ LET result == corsFunction(req)
           d == compute.distribution
       IN  IF RedirectsToHttps(d, req)
           THEN /\ req' = [req EXCEPT !.stage = "answered",
                                      !.response = ViewerProtocolRedirect(d, req),
                                      !.answeredBy = "distribution"]
                /\ edge' = [edge EXCEPT !.redirected = edge.redirected + 1]
           ELSE IF result.kind = "response"
           THEN /\ \E added \in {{}, AddedResponseHeaders(d, req)} :
                      req' = [req EXCEPT !.stage = "answered", !.response = result,
                                         !.answeredBy = "function",
                                         !.responseHeaders = added]
                /\ edge' = edge
           ELSE IF CacheHit(d, edge.cache, result.request)
           THEN /\ req' = [req EXCEPT !.stage = "answered",
                                      !.response = [kind |-> "cached"],
                                      !.answeredBy = "cache",
                                      !.responseHeaders = AddedResponseHeaders(d, req),
                                      !.compressed = Compresses(d, req)]
                /\ edge' = [edge EXCEPT !.received = edge.received + 1]
           ELSE /\ req' = [req EXCEPT
                             !.stage = "loadBalancer", !.viaEdge = TRUE,
                             !.originProtocol = OriginProtocol(d, result.request),
                             !.headers = OriginRequestHeaders(d, result.request.headers),
                             !.cookies = OriginRequestCookies(d, result.request.cookies),
                             !.query = OriginRequestQuery(d, result.request.query)]
                /\ edge' = [edge EXCEPT !.received = edge.received + 1,
                                        !.forwarded = edge.forwarded + 1]
    /\ UNCHANGED <<scaler, entry, env, props, pc, envTyped, registry, network, compute>>

\* the listener of the load balancer; on the way back to the viewer the
\* distribution adds the headers of its response headers policy to the
\* answer to a request of its own and stores it as its cache policy says
LoadBalancerHandle ==
    /\ req.stage = "loadBalancer"
    /\ req' = [req EXCEPT
                 !.stage = "answered",
                 !.response = ListenerAction(compute.listener, req),
                 !.answeredBy = "loadBalancer",
                 !.responseHeaders =
                    IF req.viaEdge
                    THEN AddedResponseHeaders(compute.distribution, req)
                    ELSE {},
                 !.compressed = req.viaEdge /\ Compresses(compute.distribution, req)]
    /\ edge' = IF req.viaEdge
               THEN [edge EXCEPT !.cache = CacheAfter(compute.distribution, edge.cache, req)]
               ELSE edge
    /\ UNCHANGED <<scaler, entry, env, props, pc, envTyped, registry, network, compute>>

\* the viewer follows a redirect to the host it names, with the protocol it
\* names
FollowRedirect ==
    /\ req.stage = "answered"
    /\ req.response.kind = "redirect"
    /\ req.response.host = compute.distribution.domainName
    /\ req.redirects < MaxRedirects
    /\ req' = [req EXCEPT !.stage = "edge",
                          !.protocol = IF req.response.protocol = "HTTPS"
                                       THEN "https" ELSE "http",
                          !.headers = req.viewerHeaders,
                          !.cookies = req.viewerCookies, !.query = req.viewerQuery,
                          !.viaEdge = FALSE, !.originProtocol = "none",
                          !.response = NoResponse, !.answeredBy = "none", !.responseHeaders = {},
                          !.compressed = FALSE,
                          !.redirects = req.redirects + 1]
    /\ UNCHANGED <<edge, scaler, entry, env, props, pc, envTyped, registry, network, compute>>

\* the viewer sends the request it sent to the distribution once more
ViewerRepeats ==
    /\ req.stage = "answered"
    /\ req.sentTo = "edge"
    /\ req.repeats < MaxRepeats
    /\ req' = [req EXCEPT !.stage = "edge", !.protocol = req.viewerProtocol,
                          !.headers = req.viewerHeaders,
                          !.cookies = req.viewerCookies, !.query = req.viewerQuery,
                          !.viaEdge = FALSE, !.originProtocol = "none",
                          !.response = NoResponse, !.answeredBy = "none", !.responseHeaders = {},
                          !.compressed = FALSE,
                          !.redirects = 0, !.repeats = req.repeats + 1]
    /\ UNCHANGED <<edge, scaler, entry, env, props, pc, envTyped, registry, network, compute>>

Next ==
    \/ ResolveConfig
    \/ NewEcrStack
    \/ NewVpcStack
    \/ NewComputeStack
    \/ NewFrontStack
    \/ ViewerToLoadBalancer
    \/ ViewerToEdge
    \/ EdgeHandle
    \/ LoadBalancerHandle
    \/ FollowRedirect
    \/ ViewerRepeats

Spec == Init /\ [][Next]_vars

----------------------------------------------------------------------------
\* Autoscaling: the task count of the deployed service under the declared
\* scaling policy

\* CPU utilisation of the service, in percent
CpuLevels == {40, 70, 95}

\* seconds that pass in one step
TickSeconds == {1, 15}

Elapsed(since, d) == IF since + d > MaxElapsed THEN MaxElapsed ELSE since + d

\* one deployment of each Fargate class
ScalingInit ==
    /\ entry \in {"CdkStreamlitFargateDeploymentStack", "CdkFargateFrontWithVpcDeploymentStack"}
    /\ env = [ ECR_REPOSITORY_NAME |-> IsSet("repo"), APP_NAME |-> IsSet("demo"),
               IMAGE_VERSION |-> IsSet("1.2.0"), PORT |-> IsSet(<<"8", "5", "0", "1">>) ]
    /\ props \in BaseProps
    /\ props.platformString = "arm"
    /\ pc = "start"
    /\ envTyped = NoUnit
    /\ registry = NoUnit
    /\ network = NoUnit
    /\ compute = NoUnit
    /\ req = Idle
    /\ edge = EdgeIdle
    /\ scaler = ScalerIdle

\* the service starts with its desired count of tasks
ServiceStart ==
    /\ pc = "deployed"
    /\ compute.kind \in FargateKinds
    /\ ~scaler.running
    /\ \E c \in CpuLevels :
         scaler' = [ running |-> TRUE, count |-> compute.service.desiredCount, cpu |-> c,
                     sinceOut |-> MaxElapsed, sinceIn |-> MaxElapsed ]
    /\ UNCHANGED <<edge, entry, env, props, pc, envTyped, registry, network, compute, req>>

\* the load of the service changes
CpuChange ==
    /\ scaler.running
    /\ \E c \in CpuLevels \ {scaler.cpu} : scaler' = [scaler EXCEPT !.cpu = c]
    /\ UNCHANGED <<edge, entry, env, props, pc, envTyped, registry, network, compute, req>>

\* time passes
Tick ==
    /\ scaler.running
    /\ scaler.sinceOut < MaxElapsed \/ scaler.sinceIn < MaxElapsed
    /\ \E d \in TickSeconds :
         scaler' = [scaler EXCEPT !.sinceOut = Elapsed(scaler.sinceOut, d),
                                  !.sinceIn = Elapsed(scaler.sinceIn, d)]
    /\ UNCHANGED <<edge, entry, env, props, pc, envTyped, registry, network, compute, req>>

\* the policy adds a task: utilisation above the target, capacity below the
\* maximum, the scale-out cooldown over
ScaleOut ==
    /\ scaler.running
    /\ scaler.cpu > compute.scaling.targetUtilizationPercent
    /\ scaler.count < compute.scaling.maxCapacity
    /\ scaler.sinceOut >= compute.scaling.scaleOutCooldown
    /\ scaler' = [scaler EXCEPT !.count = scaler.count + 1, !.sinceOut = 0]
    /\ UNCHANGED <<edge, entry, env, props, pc, envTyped, registry, network, compute, req>>

\* the policy removes a task: utilisation below the target, capacity above
\* the minimum, the scale-in cooldown over
ScaleIn ==
    /\ scaler.running
    /\ scaler.cpu < compute.scaling.targetUtilizationPercent
    /\ scaler.count > compute.scaling.minCapacity
    /\ scaler.sinceIn >= compute.scaling.scaleInCooldown
    /\ scaler' = [scaler EXCEPT !.count = scaler.count - 1, !.sinceIn = 0]
    /\ UNCHANGED <<edge, entry, env, props, pc, envTyped, registry, network, compute, req>>

ScalingNext ==
    \/ ResolveConfig
    \/ NewEcrStack
    \/ NewVpcStack
    \/ NewComputeStack
    \/ NewFrontStack
    \/ ServiceStart
    \/ CpuChange
    \/ Tick
    \/ ScaleOut
    \/ ScaleIn

ScalingSpec == ScalingInit /\ [][ScalingNext]_vars

----------------------------------------------------------------------------
\* Properties

\* a compute stack with a distribution in front of its load balancer is deployed
EdgeEnabled == pc = "deployed" /\ compute.kind \in FargateKinds

\* the compute stack whose listener carries the two rules is deployed
Gated == pc = "deployed" /\ compute.kind = "FargateCloudFront"

\* the load balancer has answered the request
AnsweredByLoadBalancer ==
    req.stage = "answered" /\ req.answeredBy = "loadBalancer"

\* the request the load balancer saw carried the exact secret header
HasSecretHeader ==
    <<customHeaderName, customHeaderValue(compute.props.appName)>> \in req.headers

\* the permanent redirect to https://<edge-domain> on port 443
RedirectToEdge ==
    [ kind |-> "redirect", statusCode |-> "HTTP_301", protocol |-> "HTTPS",
      port |-> "443", host |-> DistributionDomainName ]

\* C1, as stated: in every deployment with a distribution in front of the
\* load balancer, a request at the load balancer without the exact secret
\* header is answered with the permanent redirect to the edge domain
C1_AllEdgeEnabledRedirect ==
    (EdgeEnabled /\ AnsweredByLoadBalancer /\ ~HasSecretHeader)
        => req.response = RedirectToEdge

\* C1, amended: in the deployment of the class that declares the two listener
\* rules, a request at the load balancer without the exact secret header is
\* never forwarded and is answered with the permanent redirect to the edge
\* domain over HTTPS on port 443
C1_GatedRedirect ==
    (Gated /\ AnsweredByLoadBalancer /\ ~HasSecretHeader)
        => req.response = RedirectToEdge

\* C1 witness: a request sent straight to the gated load balancer with a
\* guessed header value has been redirected
C1_Witness ==
    /\ Gated
    /\ req.sentTo = "loadBalancer"
    /\ req.redirects = 0
    /\ \E h \in req.headers : h[1] = customHeaderName
    /\ ~HasSecretHeader
    /\ req.response = RedirectToEdge

\* C2: in every deployment with a distribution in front of the load balancer
\* and for every application name, a request at the load balancer with the
\* exact secret header is forwarded to the target group of the service,
\* whatever its method and path
C2_SecretForwarded ==
    (EdgeEnabled /\ AnsweredByLoadBalancer /\ HasSecretHeader)
        => req.response = Forward

\* C2 witness: a POST with the exact header sent straight to the gated load
\* balancer, where the redirect rule matches as well, has been forwarded
C2_Witness ==
    /\ Gated
    /\ req.sentTo = "loadBalancer"
    /\ req.method = "POST"
    /\ req.path = "/app"
    /\ HasSecretHeader
    /\ RuleMatches(RedirectApplicationListenerRule, req)
    /\ req.response = Forward

\* every variable of the environment is set
CompleteEnv == Absent(env) = {}

\* C3: in a deployment from a complete environment, the headers the
\* distribution adds to the requests to its origin are the one pair
\* (X-Verify-Origin, <appName>-StreamlitCloudFrontDistribution) that the
\* header condition of the rule of priority 1 matches
C3_BothSidesAgree ==
    (Gated /\ CompleteEnv) =>
        /\ compute.distribution.customHeaders =
              { <<customHeaderName, customHeaderValue(compute.props.appName)>> }
        /\ \A h \in compute.distribution.customHeaders :
              \E rule \in compute.listener.rules :
                 /\ rule.priority = 1
                 /\ \E c \in rule.conditions :
                       c.field = "http-header" /\ c.name = h[1] /\ h[2] \in c.values

\* C4: in a deployment from a complete environment, a request that is not
\* OPTIONS, that a viewer sent to the distribution without a gate header of
\* its own and that the distribution passed to the load balancer, is
\* forwarded to the service and not redirected back
C4_EdgeReachesService ==
    ( /\ EdgeEnabled
      /\ CompleteEnv
      /\ AnsweredByLoadBalancer
      /\ req.viaEdge
      /\ req.method # "OPTIONS"
      /\ \A h \in req.viewerHeaders : h[1] # customHeaderName )
        => req.response = Forward

\* C5: the registry unit pushes the requested version and "latest", two
\* pushes, when the version is not "latest", and "latest" alone when it is
C5_TaggedPushes ==
    registry.kind = "registry" =>
        IF registry.props.imageVersion = "latest"
        THEN registry.ecrDeployments = <<"latest">>
        ELSE registry.ecrDeployments = <<Str(registry.props.imageVersion), "latest">>

\* C5 witness: a registry unit constructed for version 1.2.0 with two pushes
C5_Witness ==
    /\ registry.kind = "registry"
    /\ registry.props.imageVersion = "1.2.0"
    /\ Len(registry.ecrDeployments) = 2

\* C6: with PLATFORMS=LINUX_ARM64, APP_NAME=demo, IMAGE_VERSION=1.2.0 and
\* PORT=8501 the Fargate stack runs on ARM64/Linux, builds the image for
\* linux/arm64, pushes the tags 1.2.0 and latest and emits https://<domain>
C6_Arm64Scenario ==
    ( /\ pc = "deployed"
      /\ entry = "CdkStreamlitFargateDeploymentStack"
      /\ props.platformString = PlatformValue("LINUX_ARM64")
      /\ CompleteEnv
      /\ env.APP_NAME = IsSet("demo")
      /\ env.IMAGE_VERSION = IsSet("1.2.0")
      /\ env.PORT = IsSet(<<"8", "5", "0", "1">>) )
        => /\ compute.service.runtimePlatform =
                 [cpuArchitecture |-> "ARM64", operatingSystemFamily |-> "LINUX"]
           /\ registry.imagePlatform = "linux/arm64"
           /\ registry.ecrDeployments = <<"1.2.0", "latest">>
           /\ compute.streamlitURL = <<"https://", DistributionDomainName>>

\* C7: no registry, network or compute unit is constructed when one of
\* ECR_REPOSITORY_NAME, APP_NAME, IMAGE_VERSION, PORT is not set
C7_AbsentInputFails ==
    Absent(env) # {} =>
        registry = NoUnit /\ network = NoUnit /\ compute = NoUnit

\* C8: when IMAGE_VERSION is the one variable that is not set, the registry
\* unit and the compute unit use the version "latest" and the one push is
\* that of the tag "latest"
C8_DefaultsToLatest ==
    Absent(env) = {"IMAGE_VERSION"} =>
        /\ registry.kind = "registry" =>
              /\ registry.props.imageVersion = "latest"
              /\ registry.ecrDeployments = <<"latest">>
        /\ compute.kind \in FargateKinds => compute.service.image.tag = "latest"

\* C9: every ingress rule of the security groups of the Fargate service
\* admits the load balancer's security group on port 80 or on the container
\* port, or the group itself on all traffic
C9_ComputeIngress ==
    EdgeEnabled =>
        \A g \in compute.service.securityGroups :
            \A r \in compute.securityGroups[g] :
                \/ /\ r.peer = "loadBalancerSecurityGroup"
                   /\ r.port \in { PortTcp(Num(80)),
                                   PortTcp(compute.service.containerPort) }
                \/ /\ r.peer = g
                   /\ r.port = PortAllTraffic

\* C9 witness: the first class, which also declares security groups open to
\* any address, deployed with container port 8501
C9_Witness ==
    /\ EdgeEnabled
    /\ compute.kind = "FargateFront"
    /\ compute.service.containerPort = Num(8501)
    /\ \E g \in DOMAIN compute.securityGroups :
          g \notin compute.service.securityGroups
             /\ \E r \in compute.securityGroups[g] : r.peer = AnyIpv4
    /\ Cardinality(compute.securityGroups["ecsSecurityGroup"]) = 3

\* C10: every registry has the same two lifecycle rules: priority 1 expires
\* untagged images older than 7 days, priority 2 keeps the last 4 images of
\* any tag
C10_LifecycleRules ==
    registry.kind = "registry" =>
        /\ Cardinality(registry.lifecycleRules) = 2
        /\ \E r \in registry.lifecycleRules :
              r = [rulePriority |-> 1, tagStatus |-> "UNTAGGED", maxImageAgeDays |-> 7]
        /\ \E r \in registry.lifecycleRules :
              r = [rulePriority |-> 2, tagStatus |-> "ANY", maxImageCount |-> 4]

\* C10 witness: a registry unit constructed from an environment in which
\* nothing but the repository name is set
C10_Witness ==
    /\ registry.kind = "registry"
    /\ Absent(env) = EnvNames \ {"ECR_REPOSITORY_NAME"}
    /\ Cardinality(registry.lifecycleRules) = 2

\* the response the viewer-request function synthesizes for OPTIONS
CorsResponse ==
    [ kind |-> "response", statusCode |-> 204, statusDescription |-> "OK",
      headers |-> { <<"access-control-allow-origin", "*">>,
                    <<"access-control-allow-headers", "*">> } ]

\* the request has been at the distribution: sent there or redirected there
HitEdge == req.sentTo = "edge" \/ req.redirects > 0

\* C11, as stated: in a deployment from a complete environment, an OPTIONS
\* request that hits the distribution never goes on to the load balancer, and
\* the answer it gets is the 204 response with the headers
\* access-control-allow-origin: * and access-control-allow-headers: *
C11_OptionsAnsweredAtEdge ==
    (EdgeEnabled /\ CompleteEnv /\ req.method = "OPTIONS" /\ HitEdge)
        => /\ req.stage # "loadBalancer"
           /\ ~req.viaEdge
           /\ req.stage = "answered" => req.response = CorsResponse

\* C11, amended: an OPTIONS request that hits the distribution never goes on
\* to the load balancer; over HTTPS, and over HTTP where the distribution has
\* no redirect-to-HTTPS policy, the viewer-request function answers it with
\* the 204 response with the two access-control headers; over HTTP at the
\* distribution with the redirect-to-HTTPS policy the distribution answers
\* it with the 307 redirect to HTTPS on its own domain
C11_AdmittedOptionsAnsweredAtEdge ==
    (EdgeEnabled /\ req.method = "OPTIONS" /\ HitEdge)
        => /\ req.stage # "loadBalancer"
           /\ ~req.viaEdge
           /\ req.stage = "answered" =>
                 IF RedirectsToHttps(compute.distribution, req)
                 THEN /\ req.answeredBy = "distribution"
                      /\ req.response =
                            [ kind |-> "redirect", statusCode |-> "HTTP_307",
                              protocol |-> "HTTPS", port |-> "443",
                              host |-> DistributionDomainName ]
                 ELSE /\ req.answeredBy = "function"
                      /\ req.response = CorsResponse

\* C11 witness: an OPTIONS request sent over HTTP to the distribution of the
\* gated stack, redirected by it to HTTPS and answered there with 204
C11_Witness ==
    /\ Gated
    /\ req.method = "OPTIONS"
    /\ req.sentTo = "edge"
    /\ req.viewerProtocol = "http"
    /\ req.protocol = "https"
    /\ req.redirects = 1
    /\ req.stage = "answered"
    /\ req.response = CorsResponse

\* C12: the StreamlitURL output of every compute stack with a distribution
\* is https://<distribution-domain>
C12_OutputIsHttpsUrl ==
    EdgeEnabled => compute.streamlitURL = <<"https://", DistributionDomainName>>

\* C14: in the gated stack some rule matches every request at the listener,
\* so the default action is never applied, and the answer is forward when the
\* exact secret header is present and the redirect to the edge otherwise
C14_TwoOutcomes ==
    /\ (Gated /\ req.stage = "loadBalancer")
          => \E rule \in compute.listener.rules : RuleMatches(rule, req)
    /\ (Gated /\ AnsweredByLoadBalancer)
          => \/ HasSecretHeader /\ req.response = Forward
             \/ ~HasSecretHeader /\ req.response = RedirectToEdge

\* C14 witness: a request without any header at the gated listener, where
\* the header rule does not match and the path rule does
C14_Witness ==
    /\ Gated
    /\ req.stage = "loadBalancer"
    /\ req.headers = {}
    /\ req.path = "/app"
    /\ ~RuleMatches(StreamlitApplicationListenerRule(compute.props.appName), req)
    /\ RuleMatches(RedirectApplicationListenerRule, req)

\* the props a top-level stack hands to its registry and network units
UnitProps == EcrStackProps(EnvTyped(env), props)

\* C16: a top-level stack constructs the registry unit after the
\* configuration, the network unit after the registry unit and one compute
\* stack after both; the compute stack gets the repository and the network
\* of the units of this stack and the appName, environment, region, platform
\* and image version those units got; the Fargate stack instantiates the
\* class with the distribution and the listener rules, the App Runner stack
\* the App Runner class
C16_ThreadedConstruction ==
    entry \in TopLevelEntries =>
        /\ registry # NoUnit => envTyped = EnvTyped(env) /\ registry.props = UnitProps
        /\ network # NoUnit => registry # NoUnit /\ network.props = UnitProps
        /\ compute # NoUnit =>
              /\ registry # NoUnit /\ network # NoUnit
              /\ compute.props.ecrRepository = registry.ecrRepository
              /\ compute.props.ecrRepository.owner = entry
              /\ compute.props.vpc = network.vpc
              /\ compute.props.vpc.owner = entry
              /\ \A f \in DOMAIN UnitProps : compute.props[f] = registry.props[f]
              /\ compute.kind = IF entry = "CdkStreamlitFargateDeploymentStack"
                                THEN "FargateCloudFront" ELSE "AppRunner"
        /\ pc = "deployed" <=> compute # NoUnit

\* C16 witness: the Fargate top-level stack fully constructed for a version
\* and a platform string that are not the defaults
C16_Witness ==
    /\ entry = "CdkStreamlitFargateDeploymentStack"
    /\ pc = "deployed"
    /\ compute.kind = "FargateCloudFront"
    /\ compute.props.imageVersion = "1.2.0"
    /\ compute.props.platformString = "arm"
    /\ registry.kind = "registry"
    /\ network.kind = "network"

\* the tags a registry unit pushes
PushedTags(r) == { r.ecrDeployments[i] : i \in 1..Len(r.ecrDeployments) }

\* C17: the tag the Fargate service of a top-level stack runs is one of the
\* tags the registry unit of that stack pushes, for every image version
C17_ServiceTagIsPushed ==
    (entry \in TopLevelEntries /\ EdgeEnabled)
        => /\ compute.service.image.repository = registry.ecrRepository
           /\ compute.service.image.tag = registry.props.imageVersion
           /\ ImageTag(compute.service.image.tag) \in PushedTags(registry)

\* C17 witness: a service that runs the tag 1.2.0, which is not the sentinel
C17_Witness ==
    /\ entry \in TopLevelEntries
    /\ EdgeEnabled
    /\ compute.service.image.tag = "1.2.0"
    /\ PushedTags(registry) = {"1.2.0", "latest"}

\* C18: for every platform string the image and the Fargate runtime platform
\* have the same architecture, ARM64 exactly when the string is `arm` and
\* AMD64/X86_64 for every other string, and no string stops construction
C18_ArchitecturesAgree ==
    /\ (pc = "configured" => ENABLED NewEcrStack)
    /\ (pc = "network" => ENABLED NewComputeStack)
    /\ registry # NoUnit =>
          registry.imagePlatform =
             IF props.platformString = "arm" THEN "linux/arm64" ELSE "linux/amd64"
    /\ EdgeEnabled =>
          /\ compute.service.runtimePlatform.operatingSystemFamily = "LINUX"
          /\ compute.service.runtimePlatform.cpuArchitecture =
                IF props.platformString = "arm" THEN "ARM64" ELSE "X86_64"
    /\ (EdgeEnabled /\ registry # NoUnit) =>
          (registry.imagePlatform = "linux/arm64"
              <=> compute.service.runtimePlatform.cpuArchitecture = "ARM64")

\* C18 witness: an unrecognised platform string deployed as AMD64/X86_64
C18_Witness ==
    /\ EdgeEnabled
    /\ registry # NoUnit
    /\ props.platformString = "riscv"
    /\ registry.imagePlatform = "linux/amd64"
    /\ compute.service.runtimePlatform.cpuArchitecture = "X86_64"

\* C15, as stated: in a deployment from a complete environment, a request at
\* the distribution that is not OPTIONS is returned unchanged by the
\* viewer-request function, goes on to the origin with its method, path,
\* cookies, query parameters and headers, and is never answered from a
\* cache: every such request the distribution receives, a repeated one
\* included, is forwarded to the origin
C15_ForwardedUncached ==
    (EdgeEnabled /\ CompleteEnv /\ req.method # "OPTIONS") =>
        /\ req.stage = "edge" =>
              corsFunction(req) = [kind |-> "request", request |-> req]
        /\ req.viaEdge =>
              /\ req.viewerHeaders \subseteq req.headers
              /\ req.cookies = req.viewerCookies
              /\ req.query = req.viewerQuery
        /\ req.response.kind # "cached"
        /\ edge.forwarded = edge.received
        /\ (req.stage = "answered" /\ HitEdge) => req.viaEdge

\* the names of the custom headers the origin of the distribution declares
OriginCustomHeaderNames == { c[1] : c \in compute.distribution.customHeaders }

\* C15, amended: the viewer-request function returns a request that is not
\* OPTIONS unchanged; a request the distribution hands on goes to the origin
\* with its method, path, all cookies, all query parameters and every viewer
\* header whose name is not that of a custom header of the origin, and with
\* the origin's custom headers, which take the place of a viewer header of
\* their name (custom_header_name in the gated class; the first class
\* declares none, so there every header goes on); nothing is answered from a
\* cache; every such request over HTTPS, and over HTTP where the
\* distribution has no redirect-to-HTTPS policy, a repeated one included, is
\* forwarded to the origin, and a request over HTTP at the distribution with
\* the redirect-to-HTTPS policy is redirected and not forwarded
C15_AdmittedForwardedUncached ==
    (EdgeEnabled /\ req.method # "OPTIONS") =>
        /\ req.stage = "edge" =>
              corsFunction(req) = [kind |-> "request", request |-> req]
        /\ req.viaEdge =>
              /\ \A h \in req.viewerHeaders :
                    h[1] \notin OriginCustomHeaderNames => h \in req.headers
              /\ \A h \in req.headers :
                    IF h[1] \in OriginCustomHeaderNames
                    THEN h \in compute.distribution.customHeaders
                    ELSE h \in req.viewerHeaders
              /\ compute.distribution.customHeaders \subseteq req.headers
              /\ compute.kind = "FargateFront" => req.headers = req.viewerHeaders
              /\ req.cookies = req.viewerCookies
              /\ req.query = req.viewerQuery
        /\ req.response.kind # "cached"
        /\ edge.forwarded = edge.received
        /\ (req.stage = "answered" /\ HitEdge) =>
              IF RedirectsToHttps(compute.distribution, req)
              THEN /\ req.answeredBy = "distribution"
                   /\ ~req.viaEdge
                   /\ req.response = ViewerProtocolRedirect(compute.distribution, req)
              ELSE /\ req.answeredBy = "loadBalancer"
                   /\ req.viaEdge
                   /\ req.originProtocol = "http"

\* C15 witness: the same GET with a cookie, a query parameter and a header
\* custom_header_name of the viewer's own sent over HTTPS to the distribution
\* of the gated stack twice; the origin has answered both times and got the
\* origin's custom header in the place of the viewer's
C15_Witness ==
    /\ Gated
    /\ req.viewerProtocol = "https"
    /\ req.method = "GET"
    /\ req.sentTo = "edge"
    /\ req.repeats = 1
    /\ req.redirects = 0
    /\ req.stage = "answered"
    /\ req.viaEdge
    /\ req.cookies # {}
    /\ req.query # {}
    /\ req.viewerHeaders = { <<"custom_header_name", <<"foo">> >> }
    /\ req.headers = OriginCustomHeaders(compute.props.appName)
    /\ edge.forwarded >= 2

\* C13: the service starts with one task, its task count is never below 1
\* and never above 2, and a task is added (removed) only when at least 60
\* seconds have passed since a task was last added (removed)
C13_TaskCountBounds ==
    /\ [](scaler.running => scaler.count >= 1 /\ scaler.count <= 2)
    /\ [][ (~scaler.running /\ scaler'.running) => scaler'.count = 1 ]_vars
    /\ [][ (scaler.running /\ scaler'.running) =>
              /\ scaler'.count > scaler.count => scaler.sinceOut >= 60
              /\ scaler'.count < scaler.count => scaler.sinceIn >= 60 ]_vars

\* C13 witness: a second task has just been added again, less than 60
\* seconds after a task was removed
C13_Witness ==
    /\ scaler.running
    /\ scaler.count = 2
    /\ scaler.sinceOut = 0
    /\ scaler.sinceIn < 60

====
